---- MODULE Spec2Model ----
(***************************************************************************)
(* Model of the bevy version of "Baobei needs": the collision and contact  *)
(* systems of src/src/collisions/mod.rs and the item systems of            *)
(* src/src/gameplay/items.rs, run once per tick in registration order.     *)
(*                                                                         *)
(* Lengths are grid cells, time is counted in tenths of a second and       *)
(* happiness in steps of 0.05.  A box is given by its centre and its full  *)
(* size, as in bevy's collide().                                           *)
(***************************************************************************)
EXTENDS Integers, Sequences, FiniteSets, TLC

(***************************************************************************)
(* Bounds of the model.                                                    *)
(***************************************************************************)
\* largest displacement per axis that movement_system hands over in a tick
MaxStep == 1
\* largest frame time, in tenths of a second
MaxDelta == 2
\* largest number of item entities alive at once
MaxItems == 2
\* entity ids used to exercise Contact's Eq and Hash in a HashSet
MaxProbe == 3
\* largest duration of a Cooldown run on its own, in tenths of a second
MaxDuration == 6
\* largest number of calls of Publisher::subscribe
MaxSubscribers == 2
\* largest number of calls of Publisher::publish
MaxPublished == 3
\* largest number of draws followed in one call of random_different_item
MaxDraws == 12
\* largest number of entities inserted into the legion World
MaxEntities == 3
\* largest number of calls of physics::update
MaxUpdates == 2

(***************************************************************************)
(* Entities spawned at startup, and program constants.                     *)
(***************************************************************************)
DIDI == 1
BAOBEI == 2
SINK == 3
SHELF == 4
FIRST_SPAWNED == 5

Items == {"IceCream", "WaterGlass", "Chips"}
NoItem == "NoItem"

\* PickAndDropCooldown: 0.2 s
COOLDOWN_SECONDS == 2
\* Happiness::happy(): 1.0
HAPPY == 20
\* happiness.add(0.15) / happiness.sub(0.15)
GIVE_HAPPINESS == 3
\* HAPPINESS_DECREASE: 0.05
HAPPINESS_DECREASE == 1
\* HappinessTimer: Timer::from_seconds(1.0, true)
HAPPINESS_SECONDS == 10

\* The worlds the systems are run on.  Two are corridors one cell high:
\*   kitchen: x = 0 free floor, x = 1 at the sink and at the shelf, x = 2 at
\*            the shelf only;
\*   lounge:  x = 0 at the sink, x = 1 at the shelf and at Baobei, x = 2 at
\*            Baobei only.
\* Two are rooms of four by three cells with one piece of furniture; in
\* tagged_room Didi has a TriggerArea besides its collider.
Corridors == {"kitchen", "lounge"}
Worlds == Corridors \cup {"room", "tagged_room"}

Add(p, q) == <<p[1] + q[1], p[2] + q[2]>>

\* the BoxCollider of Didi
didi_collider == [size |-> <<1, 1>>, offset |-> <<0, -1>>]

\* the TriggerArea that a dropped item gets, and where it is put
ITEM_AREA == <<2, 2>>
DROP_OFFSET == <<-1, 0>>

\* start position of Didi
didi_start(w) == <<0, 0>>

\* entities with Position + BoxCollider and no Movement: the four borders,
\* and in the rooms one piece of furniture whose collider has an offset
static_colliders(w) ==
    IF w \in Corridors
    THEN { [pos |-> <<-2, 0>>, size |-> <<3, 30>>, offset |-> <<0, 0>>],
           [pos |-> <<4, 0>>, size |-> <<3, 30>>, offset |-> <<0, 0>>],
           [pos |-> <<2, -3>>, size |-> <<30, 3>>, offset |-> <<0, 0>>],
           [pos |-> <<2, 1>>, size |-> <<30, 3>>, offset |-> <<0, 0>>] }
    ELSE { [pos |-> <<-2, 0>>, size |-> <<3, 30>>, offset |-> <<0, 0>>],
           [pos |-> <<5, 0>>, size |-> <<3, 30>>, offset |-> <<0, 0>>],
           [pos |-> <<2, -3>>, size |-> <<30, 3>>, offset |-> <<0, 0>>],
           [pos |-> <<2, 3>>, size |-> <<30, 3>>, offset |-> <<0, 0>>],
           [pos |-> <<2, 0>>, size |-> <<1, 1>>, offset |-> <<0, 1>>] }

\* entities with ItemProducer + Position + TriggerArea
item_producers(w) ==
    IF w = "kitchen"
    THEN { [e |-> SINK, item |-> "WaterGlass", pos |-> <<1, 0>>, size |-> <<1, 1>>],
           [e |-> SHELF, item |-> "Chips", pos |-> <<2, 0>>, size |-> <<2, 2>>] }
    ELSE IF w = "lounge"
    THEN { [e |-> SINK, item |-> "WaterGlass", pos |-> <<0, 0>>, size |-> <<1, 1>>],
           [e |-> SHELF, item |-> "Chips", pos |-> <<1, 0>>, size |-> <<1, 1>>] }
    ELSE {}

\* entities with Baobei + AskingItem + Happiness + Position + TriggerArea
item_askers(w) ==
    IF w = "lounge"
    THEN { [e |-> BAOBEI, pos |-> <<2, 0>>, size |-> <<2, 2>>] }
    ELSE {}

\* whether the moving entity also carries a TriggerArea, and its size
didi_area(w) == IF w = "tagged_room" THEN {<<1, 1>>} ELSE {}

(***************************************************************************)
(* bevy::sprite::collide_aabb::collide(..).is_some(): strict overlap of two *)
(* boxes given by centre and size (compared doubled, to stay in integers). *)
(***************************************************************************)
collide(a_pos, a_size, b_pos, b_size) ==
    /\ 2 * a_pos[1] - a_size[1] < 2 * b_pos[1] + b_size[1]
    /\ 2 * a_pos[1] + a_size[1] > 2 * b_pos[1] - b_size[1]
    /\ 2 * a_pos[2] - a_size[2] < 2 * b_pos[2] + b_size[2]
    /\ 2 * a_pos[2] + a_size[2] > 2 * b_pos[2] - b_size[2]

(***************************************************************************)
(* Contact(pub Entity, pub Entity), a pair <<a, b>>, with its PartialEq    *)
(* and Hash, and std's HashSet<Contact> on top of them.                    *)
(***************************************************************************)
Min(a, b) == IF a <= b THEN a ELSE b
Max(a, b) == IF a >= b THEN a ELSE b

\* impl PartialEq for Contact
ContactEq(c1, c2) ==
    LET same == c1[1] = c2[1] /\ c1[2] = c2[2]
        inverted == c1[1] = c2[2] /\ c1[2] = c2[1]
    IN same \/ inverted

\* a hash that feeds the two entities in the order they are given
ContactHash_ordered(c) == <<c[1], c[2]>>

\* impl Hash for Contact: what is fed to the hasher
ContactHash(c) == <<Min(c[1], c[2]), Max(c[1], c[2])>>

\* a HashSet finds a key through its hash, then through ==
SameKey(c1, c2) == ContactHash(c1) = ContactHash(c2) /\ ContactEq(c1, c2)

\* HashSet::contains
hs_contains(S, c) == \E d \in S : SameKey(d, c)

\* HashSet::insert: an equal key already there is kept
hs_insert(S, c) == IF hs_contains(S, c) THEN S ELSE S \cup {c}

\* HashSet::difference
hs_difference(S, T) == {c \in S : ~hs_contains(T, c)}

\* the HashSets that collecting / inserting the elements of P, in any order,
\* can give
hs_collect(P) ==
    {S \in SUBSET P : /\ \A s, t \in S : SameKey(s, t) => s = t
                      /\ \A p \in P : hs_contains(S, p)}

(***************************************************************************)
(* State.                                                                  *)
(***************************************************************************)
VARIABLES
    world,          \* which entities were spawned at startup
    pc,             \* the system that runs next in the tick
    position,       \* Position of Didi
    movement,       \* Movement of Didi
    contacts,       \* entities with a Contact: records [id, c]
    items,          \* entities with an Item: records [id, item, carried, pos]
    carrying,       \* Carrying of Didi, or NoItem
    askers,         \* AskingItem and Happiness of each asker
    cooldown,       \* PickAndDropCooldown: [remaining, available]
    action_events,  \* ActionEvents sent and not yet read
    last_overlap,   \* pairs that overlapped in the previous contact pass
    since_action,   \* time ticked since an ActionEvent was last sent
    obs,            \* what the last system pass started from and sent
    hs,             \* a HashSet<Contact>
    timer,          \* a Cooldown run on its own
    senders,        \* Publisher::senders: the channels of its Senders
    channels,       \* the channels created by subscribe, in order
    publications,   \* the messages published so far, in order
    timer_run,      \* since its last start: time ticked and whether it ticked
    rolls,          \* a call of random_different_item: [item, draws, returned]
    baobei_happiness, \* a Happiness and the HappinessTimer: [value, elapsed]
    legion_world    \* the legion World: [entities, inbox, inserted, updates]

gameVars == <<world, pc, position, movement, contacts, items,
              carrying, askers, cooldown, action_events, last_overlap,
              since_action>>
\* the objects that are run on their own, outside the game
pubVars == <<senders, channels, publications>>
unitVars == <<hs, timer, timer_run, pubVars, rolls, baobei_happiness,
              legion_world>>
vars == <<gameVars, obs, unitVars>>

NoPos == <<>>
NoObs == [sys |-> "none"]

\* Cooldown::from_seconds
from_seconds(seconds) ==
    [duration |-> seconds, available |-> TRUE, remaining |-> 0]

\* no ActionEvent was sent yet
Never == 0 - 1

\* start() was not called yet
NoRun == [sum |-> Never, ticked |-> FALSE]

\* Universe::new().create_world(): no entity, and no notification waiting in
\* the channel of the subscriber
create_world == [entities |-> {}, inbox |-> <<>>, inserted |-> 0, updates |-> 0]

\* Happiness::happy() with HappinessTimer::default()
happy == [value |-> HAPPY, elapsed |-> 0]

\* random_different_item was not called yet
NoCall == [item |-> NoItem, draws |-> <<>>, returned |-> TRUE]

\* Publisher::new(): no subscriber
InitPublisher ==
    /\ senders = <<>>
    /\ channels = <<>>
    /\ publications = <<>>

\* the world after the startup systems
InitGame ==
    /\ world \in Worlds
    /\ pc = "movement"
    /\ position = didi_start(world)
    /\ movement = <<0, 0>>
    /\ contacts = {}
    /\ items = {}
    /\ carrying = NoItem
    /\ askers \in [{a.e : a \in item_askers(world)} ->
                     [asking_item : Items, happiness : {HAPPY}]]
    /\ cooldown = from_seconds(COOLDOWN_SECONDS)
    /\ action_events = <<>>
    /\ last_overlap = {}
    /\ since_action = Never

Init ==
    /\ InitGame
    /\ obs = NoObs
    /\ hs = {}
    /\ timer = from_seconds(COOLDOWN_SECONDS)
    /\ timer_run = NoRun
    /\ InitPublisher
    /\ rolls = NoCall
    /\ baobei_happiness = happy
    /\ legion_world = create_world

(***************************************************************************)
(* movement_system: every DirectionEvent of the tick overwrites Movement   *)
(* with direction * delta * SPEED; without an event Movement is left.      *)
(***************************************************************************)
Steps == (0 - MaxStep) .. MaxStep

movement_system ==
    /\ pc = "movement"
    /\ \/ /\ UNCHANGED movement
          /\ obs' = [sys |-> "movement", received |-> FALSE]
       \/ \E dx \in Steps, dy \in Steps :
            /\ <<dx, dy>> # <<0, 0>>
            /\ movement' = <<dx, dy>>
            /\ obs' = [sys |-> "movement", received |-> TRUE]
    /\ pc' = "collision"
    /\ UNCHANGED <<world, position, contacts, items, carrying,
                   askers, cooldown, action_events, last_overlap, since_action,
                   unitVars>>

\* a test that takes the trigger areas of the world for colliders too
will_not_collide_areas(w, next_pos_a) ==
    /\ \A b \in static_colliders(w) :
         ~collide(Add(next_pos_a, didi_collider.offset), didi_collider.size,
                  Add(b.pos, b.offset), b.size)
    /\ \A t \in item_producers(w) \cup item_askers(w) :
         ~collide(Add(next_pos_a, didi_collider.offset), didi_collider.size,
                  t.pos, t.size)

\* a test that is content with one collider that is not hit
will_not_collide_some(w, next_pos_a) ==
    \E b \in static_colliders(w) :
      ~collide(Add(next_pos_a, didi_collider.offset), didi_collider.size,
               Add(b.pos, b.offset), b.size)

(***************************************************************************)
(* collision_system                                                        *)
(***************************************************************************)
will_not_collide(w, next_pos_a) ==
    \A b \in static_colliders(w) :
        ~collide(Add(next_pos_a, didi_collider.offset), didi_collider.size,
                 Add(b.pos, b.offset), b.size)

\* both tests made from the position the entity had before the pass
resolve_independent(w, pos_a, mov_a) ==
    <<IF will_not_collide(w, Add(pos_a, <<mov_a[1], 0>>))
      THEN pos_a[1] + mov_a[1] ELSE pos_a[1],
      IF will_not_collide(w, Add(pos_a, <<0, mov_a[2]>>))
      THEN pos_a[2] + mov_a[2] ELSE pos_a[2]>>

\* the first version of the system: one test for the whole movement
resolve_whole_vector(w, pos_a, mov_a) ==
    IF will_not_collide(w, Add(pos_a, mov_a)) THEN Add(pos_a, mov_a) ELSE pos_a

\* the position after the two tests, x then y
resolve(w, pos_a, mov_a) ==
    LET after_x == IF will_not_collide(w, Add(pos_a, <<mov_a[1], 0>>))
                   THEN <<pos_a[1] + mov_a[1], pos_a[2]>>
                   ELSE pos_a
    IN IF will_not_collide(w, Add(after_x, <<0, mov_a[2]>>))
       THEN <<after_x[1], after_x[2] + mov_a[2]>>
       ELSE after_x

\* a pass that leaves the Movement it has read
Movement_left == movement

\* Movement::default()
Movement_default == <<0, 0>>

\* the system, run when the tick is at `at`, which it leaves at `then`
collision_pass(at, then) ==
    /\ pc = at
    /\ IF position = NoPos
       THEN UNCHANGED <<position, movement>>
       ELSE /\ position' = resolve(world, position, movement)
            /\ movement' = Movement_default
    /\ pc' = then
    /\ obs' = [sys |-> "collision", from |-> position, by |-> movement]
    /\ UNCHANGED <<world, contacts, items, carrying, askers,
                   cooldown, action_events, last_overlap, since_action, unitVars>>

collision_system == collision_pass("collision", "trigger")

(***************************************************************************)
(* trigger_area_system, with the spawns and despawns it queues applied.    *)
(***************************************************************************)
\* Query<(Entity, &Position, &BoxCollider), With<Movement>>
moving_colliders ==
    IF position = NoPos THEN {}
    ELSE { [e |-> DIDI, pos |-> position, size |-> didi_collider.size] }

\* Query<(Entity, &Position, &TriggerArea)>
trigger_areas ==
    { [e |-> p.e, pos |-> p.pos, size |-> p.size] : p \in item_producers(world) }
    \cup { [e |-> a.e, pos |-> a.pos, size |-> a.size] : a \in item_askers(world) }
    \cup { [e |-> it.id, pos |-> it.pos, size |-> ITEM_AREA] :
             it \in {i \in items : i.pos # NoPos} }
    \cup { [e |-> DIDI, pos |-> position, size |-> s] :
             s \in IF position = NoPos THEN {} ELSE didi_area(world) }

\* a double loop that builds Contact(entity_b, entity_a)
overlapping_pairs_inverted ==
    { <<ab[2].e, ab[1].e>> :
        ab \in { x \in moving_colliders \X trigger_areas :
                   collide(x[1].pos, x[1].size, x[2].pos, x[2].size) } }

\* the pairs for which the test of the double loop succeeds
overlapping_pairs ==
    { <<ab[1].e, ab[2].e>> :
        ab \in { x \in moving_colliders \X trigger_areas :
                   collide(x[1].pos, x[1].size, x[2].pos, x[2].size) } }

\* the ids a spawn can return: an id is opaque, so the entities that hold a
\* Contact and those that hold an Item draw from two ranges
ItemIds == FIRST_SPAWNED .. (FIRST_SPAWNED + MaxItems + 1)
ContactIds == (FIRST_SPAWNED + MaxItems + 2) .. (2 * FIRST_SPAWNED + 2 * MaxItems + 2)
free_ids == ContactIds \ {r.id : r \in contacts}

\* the n smallest of them: the ids that n spawns in a row return
first_free(n) ==
    {f \in free_ids : Cardinality({g \in free_ids : g < f}) < n}

\* a pass that takes every overlapping pair for a started one
started_all(next, prev) == next

\* next_contacts.difference(&prev_contacts)
started_contacts(next, prev) == hs_difference(next, prev)

\* a pass that takes the pairs of its last pass for the previous contacts
stopped_remembered(prev, next) == hs_difference(last_overlap, next)

\* a pass that never sees a contact stop
stopped_none(prev, next) == {}

\* prev_contacts.difference(&next_contacts)
stopped_contacts(prev, next) == hs_difference(prev, next)

\* prev_entities is the HashMap collected from the records: when several
\* records hold equal keys it keeps one of them (kept) for each key
trigger_area_pass(at, then) ==
    /\ pc = at
    /\ \E next_contacts \in hs_collect(overlapping_pairs),
          prev_contacts \in hs_collect({r.c : r \in contacts}) :
        \E kept \in SUBSET contacts :
          /\ \A k \in prev_contacts :
               Cardinality({r \in kept : SameKey(r.c, k)}) = 1
          /\ LET prev_entities ==
                   [k \in prev_contacts |->
                      (CHOOSE r \in kept : SameKey(r.c, k)).id]
                 started == started_contacts(next_contacts, prev_contacts)
                 stopped == stopped_contacts(prev_contacts, next_contacts)
                 \* if let Some(&entity) = prev_entities.get(stopped_contact)
                 found == {c \in stopped : c \in DOMAIN prev_entities}
                 despawned == {prev_entities[c] : c \in found}
             IN /\ Cardinality(started) <= Cardinality(free_ids)
                /\ \E spawned \in [started -> first_free(Cardinality(started))] :
                     /\ \A c, d \in started : spawned[c] = spawned[d] => c = d
                     /\ contacts' =
                          {r \in contacts : r.id \notin despawned}
                          \cup {[id |-> spawned[c], c |-> c] : c \in started}
                /\ obs' = [sys |-> "trigger", before |-> last_overlap,
                           prev |-> contacts,
                           sent |-> {<<"Started", c>> : c \in started}
                                    \cup {<<"Stopped", c>> : c \in stopped},
                           despawned |-> despawned,
                           missing |-> stopped \ found]
    /\ last_overlap' = overlapping_pairs
    /\ pc' = then
    /\ UNCHANGED <<world, position, movement, items, carrying, askers, cooldown,
                   action_events, since_action, unitVars>>

trigger_area_system == trigger_area_pass("trigger", "pick")

(***************************************************************************)
(* Cooldown                                                                *)
(***************************************************************************)
\* a start that sets the time to wait and forgets the flag
start_keeps_available(cd) ==
    [duration |-> cd.duration, available |-> TRUE, remaining |-> cd.duration]

\* Cooldown::start
start(cd) ==
    [duration |-> cd.duration, available |-> FALSE, remaining |-> cd.duration]

\* a tick that waits for the remaining time to fall below zero
tick_strict(cd, delta) ==
    IF cd.available
    THEN cd
    ELSE LET remaining == cd.remaining - delta
         IN IF remaining < 0
            THEN [duration |-> cd.duration, available |-> TRUE, remaining |-> 0]
            ELSE [duration |-> cd.duration, available |-> FALSE,
                  remaining |-> remaining]

\* a tick that leaves the remaining time where the subtraction put it
tick_keeps_remainder(cd, delta) ==
    IF cd.available
    THEN cd
    ELSE LET remaining == cd.remaining - delta
         IN [duration |-> cd.duration, available |-> remaining <= 0,
             remaining |-> remaining]

\* Cooldown::tick
tick(cd, delta) ==
    IF cd.available
    THEN cd
    ELSE LET remaining == cd.remaining - delta
         IN IF remaining <= 0
            THEN [duration |-> cd.duration, available |-> TRUE, remaining |-> 0]
            ELSE [duration |-> cd.duration, available |-> FALSE,
                  remaining |-> remaining]

(***************************************************************************)
(* pick_or_drop_system                                                     *)
(***************************************************************************)
Take(item) == [type |-> "Take", item |-> item]
PutAway(item) == [type |-> "PutAway", item |-> item]
Drop(item) == [type |-> "Drop", item |-> item]
PickUp(entity, item) == [type |-> "PickUp", entity |-> entity, item |-> item]
Keep(item) == [type |-> "Keep", item |-> item]
Give(item) == [type |-> "Give", item |-> item]

\* the orders in which a query can yield the elements of S
Orders(S) ==
    {f \in [1 .. Cardinality(S) -> S] :
        \A i, j \in 1 .. Cardinality(S) : f[i] = f[j] => i = j}

\* contacts.iter().filter(|contact| contact.0 == didi)
didi_contacts == {r \in contacts : r.c[1] = DIDI}

\* ... .filter_map(|contact| item_producers.get(contact.1).ok())
producers_in_contact ==
    {r \in didi_contacts : \E p \in item_producers(world) : p.e = r.c[2]}

\* ... .filter_map(|contact| item_askers.get(contact.1).ok())
askers_in_contact ==
    {r \in didi_contacts : \E a \in item_askers(world) : a.e = r.c[2]}

\* ... .find_map(|contact| items.get(contact.1).ok())
items_in_contact ==
    {r \in didi_contacts : \E it \in items : it.id = r.c[2]}

produced_item(e) == (CHOOSE p \in item_producers(world) : p.e = e).item

\* the match of the producer branch
producer_action(carried_item, item) ==
    IF carried_item # NoItem /\ carried_item = item THEN PutAway(carried_item)
    ELSE IF carried_item # NoItem THEN Keep(carried_item)
    ELSE Take(item)

\* The three parts of the system after its gate.  Each takes the events sent
\* so far with the cooldown, and gives what can be sent after it.
producer_branch(acc) ==
    {[sent |-> acc.sent \o [i \in 1 .. Cardinality(producers_in_contact) |->
                  producer_action(carrying, produced_item(f[i].c[2]))],
      cd |-> IF producers_in_contact # {} THEN start(acc.cd) ELSE acc.cd] :
       f \in Orders(producers_in_contact)}

\* a give branch that leaves the cooldown as it is
give_branch_no_start(acc) ==
    IF carrying # NoItem
    THEN {[sent |-> acc.sent \o [i \in 1 .. Cardinality(askers_in_contact) |->
                      Give(carrying)],
           cd |-> acc.cd]}
    ELSE {acc}

\* if let Ok(Carrying(item)) = carried_item { ... for_each(|_| { send Give;
\* start }) }
give_branch(acc) ==
    IF carrying # NoItem
    THEN {[sent |-> acc.sent \o [i \in 1 .. Cardinality(askers_in_contact) |->
                      Give(carrying)],
           cd |-> IF askers_in_contact # {} THEN start(acc.cd) ELSE acc.cd]}
    ELSE {acc}

\* a ground branch that looks at the ground before it looks at the hands
ground_branch_ground_first(acc) ==
    IF items_in_contact # {}
    THEN {[sent |-> Append(acc.sent, PickUp(it.id, it.item)),
           cd |-> start(acc.cd)] :
            it \in {i \in items : \E r \in items_in_contact : r.c[2] = i.id}}
    ELSE IF carrying # NoItem
    THEN {[sent |-> Append(acc.sent, Drop(carrying)), cd |-> start(acc.cd)]}
    ELSE {acc}

\* a ground branch that starts the cooldown when it finds nothing to pick up
ground_branch_starts(acc) ==
    IF carrying # NoItem
    THEN {[sent |-> Append(acc.sent, Drop(carrying)), cd |-> start(acc.cd)]}
    ELSE IF items_in_contact = {}
    THEN {[sent |-> acc.sent, cd |-> start(acc.cd)]}
    ELSE {[sent |-> Append(acc.sent, PickUp(it.id, it.item)),
           cd |-> start(acc.cd)] :
            it \in {i \in items : \E r \in items_in_contact : r.c[2] = i.id}}

ground_branch(acc) ==
    IF carrying # NoItem
    THEN {[sent |-> Append(acc.sent, Drop(carrying)), cd |-> start(acc.cd)]}
    ELSE IF items_in_contact = {}
    THEN {acc}
    ELSE {[sent |-> Append(acc.sent, PickUp(it.id, it.item)),
           cd |-> start(acc.cd)] :
            it \in {i \in items : \E r \in items_in_contact : r.c[2] = i.id}}

\* the same without the two early returns
derived_actions_no_return(cd) ==
    UNION {UNION {ground_branch(g) : g \in give_branch(p)} :
             p \in producer_branch([sent |-> <<>>, cd |-> cd])}

\* the sequences of ActionEvents one pass can send once its gate is passed,
\* each with the cooldown it leaves
derived_actions(cd) ==
    UNION {IF ~p.cd.available THEN {p}
           ELSE UNION {IF ~g.cd.available THEN {g} ELSE ground_branch(g) :
                         g \in give_branch(p)} :
             p \in producer_branch([sent |-> <<>>, cd |-> cd])}

\* time ticked since the last ActionEvent, once delta more has been ticked
elapsed(since, delta) ==
    IF since = Never THEN Never ELSE Min(since + delta, COOLDOWN_SECONDS)

\* a gate that does not look at the keyboard
gate_ignores_space(cd, space) == cd.available

\* !(!cooldown.0.tick(..).available() || !keyboard.pressed(KeyCode::Space))
gate(cd, space) == cd.available /\ space

\* a condition that looks at the keyboard first and ticks the cooldown only
\* when the key is pressed
ticked_if_pressed(cd, delta, space) == IF space THEN tick(cd, delta) ELSE cd

\* cooldown.0.tick(time.delta_seconds()), the left operand of the condition:
\* it is evaluated whatever the keyboard says
ticked_cooldown(cd, delta, space) == tick(cd, delta)

\* the system run with a delta of the given set
pick_or_drop_run(deltas) ==
    /\ pc = "pick"
    /\ \E delta \in deltas, space \in BOOLEAN :
         LET ticked == ticked_cooldown(cooldown, delta, space)
         IN /\ IF ~gate(ticked, space)
               THEN /\ cooldown' = ticked
                    /\ action_events' = <<>>
               ELSE \E out \in derived_actions(ticked) :
                      /\ cooldown' = out.cd
                      /\ action_events' = out.sent
            /\ since_action' = IF action_events' # <<>> THEN 0
                               ELSE elapsed(since_action, delta)
            /\ obs' = [sys |-> "pick", delta |-> delta, space |-> space,
                       cd |-> cooldown,
                       since |-> elapsed(since_action, delta)]
    /\ pc' = "handle"
    /\ UNCHANGED <<world, position, movement, contacts, items,
                   carrying, askers, last_overlap, unitVars>>

pick_or_drop_system == pick_or_drop_run(0 .. MaxDelta)

(***************************************************************************)
(* handle_actions_system, with the commands it queues applied.  Its        *)
(* queries see the entities as they are when the system starts.            *)
(***************************************************************************)
\* an addition that does not clamp
add_unclamped(happiness, value) == happiness + value

\* Happiness::add
add(happiness, value) ==
    LET sum == happiness + value
    IN IF sum > HAPPY THEN HAPPY ELSE IF sum < 0 THEN 0 ELSE sum

\* Happiness::sub
sub(happiness, value) == add(happiness, 0 - value)

\* a roll that does not look at the item given
random_item(item) == Items

\* what random_different_item can return
random_different_item(item) == {i \in Items : i # item}

\* Query<Entity, With<CarriedItem>>
carried_items == {it.id : it \in {i \in items : i.carried}}

\* the id commands.spawn gets when `taken` ids are in use
spawn_id(taken) == CHOOSE f \in ItemIds \ taken : \A g \in ItemIds \ taken : f <= g

\* for (mut asking_item, mut happiness) in baobei_query.iter_mut(), in the
\* order of their ids: the states one Give can leave
RECURSIVE give_loop(_, _, _)
give_loop(todo, item, st) ==
    IF todo = {} THEN {st}
    ELSE LET a == CHOOSE x \in todo : \A y \in todo : x <= y
             asker == st.askers[a]
         IN IF asker.asking_item # item
            THEN {[st EXCEPT !.askers[a].happiness = sub(asker.happiness, GIVE_HAPPINESS),
                             !.returned = TRUE]}
            ELSE UNION {
                   give_loop(todo \ {a}, item,
                     [st EXCEPT !.askers[a].happiness = add(asker.happiness, GIVE_HAPPINESS),
                                !.askers[a].asking_item = next_item,
                                !.carrying = NoItem,
                                !.items = {it \in st.items : it.id \notin carried_items}])
                   : next_item \in random_different_item(item)}

\* a drop that takes the item out of the hand and gives it no place
drop_item_nowhere(it) == [it EXCEPT !.carried = FALSE]

\* Drop: the item in hand loses Parent and CarriedItem and gets a Position
\* next to Didi and a TriggerArea
drop_item(it) ==
    [it EXCEPT !.carried = FALSE, !.pos = Add(position, DROP_OFFSET)]

\* one arm of the match
handle_action(action, st) ==
    CASE action.type = "PutAway" ->
           {[st EXCEPT !.carrying = NoItem,
                       !.items = {it \in st.items : it.id \notin carried_items}]}
      [] action.type = "Drop" ->
           IF carried_items # {} /\ position = NoPos
           THEN \* positions.get(didi).unwrap()
                {[st EXCEPT !.panicked = TRUE]}
           ELSE {[st EXCEPT !.carrying = NoItem,
                            !.items = {IF it.id \in carried_items
                                       THEN drop_item(it)
                                       ELSE it : it \in st.items}]}
      [] action.type = "PickUp" ->
           {[st EXCEPT !.carrying = action.item,
                       !.items = {IF it.id = action.entity
                                  THEN [it EXCEPT !.carried = TRUE, !.pos = NoPos]
                                  ELSE it : it \in st.items}]}
      [] action.type = "Take" ->
           {[st EXCEPT !.carrying = action.item,
                       !.items = st.items \cup
                          {[id |-> spawn_id({it.id : it \in items} \cup {it.id : it \in st.items}),
                            item |-> action.item, carried |-> TRUE, pos |-> NoPos]}]}
      [] action.type = "Keep" -> {st}
      [] action.type = "Give" -> give_loop(DOMAIN st.askers, action.item, st)

\* for action in action_events.iter(), from the i-th event on
RECURSIVE handle_from(_, _)
handle_from(i, st) ==
    IF i > Len(action_events) \/ st.returned \/ st.panicked THEN {st}
    ELSE UNION {handle_from(i + 1, next) : next \in handle_action(action_events[i], st)}

handle_actions_system ==
    /\ pc = "handle"
    /\ \E done \in handle_from(1, [carrying |-> carrying, items |-> items,
                                   askers |-> askers, returned |-> FALSE,
                                   panicked |-> FALSE]) :
         /\ Cardinality(done.items) <= MaxItems
         /\ IF done.panicked
            THEN \* the thread of the system panics: the tick is never finished
                 /\ pc' = "panic"
                 /\ UNCHANGED <<carrying, items, askers, action_events>>
            ELSE /\ carrying' = done.carrying
                 /\ items' = done.items
                 /\ askers' = done.askers
                 /\ pc' = "movement"
                 /\ action_events' = <<>>
    /\ obs' = [sys |-> "handle", carrying |-> carrying, askers |-> askers,
               items |-> items, read |-> action_events]
    /\ UNCHANGED <<world, position, movement, contacts, cooldown, last_overlap,
                   since_action, unitVars>>

(***************************************************************************)
(* The tick: the systems in the order of their registration.               *)
(***************************************************************************)
Next ==
    \/ movement_system
    \/ collision_system
    \/ trigger_area_system
    \/ pick_or_drop_system
    \/ handle_actions_system

Spec == Init /\ [][Next]_vars

(***************************************************************************)
(* The tick under the schedules that CollisionPlugin leaves open: its      *)
(* system set names collision_system and trigger_area_system without an    *)
(* order between them, so the host runs them in either order.              *)
(***************************************************************************)
trigger_area_system_first == trigger_area_pass("collision", "collision_second")

collision_system_second == collision_pass("collision_second", "pick")

InitSchedule ==
    /\ Init
    /\ world = "kitchen"

NextSchedule ==
    \/ Next
    \/ trigger_area_system_first
    \/ collision_system_second

SpecSchedule == InitSchedule /\ [][NextSchedule]_vars

(***************************************************************************)
(* The tick in a host where another system despawns entities: a Contact    *)
(* record is an entity of its own (commands.spawn().insert(contact)), so    *)
(* between two ticks any of them can be gone when the next tick starts.     *)
(***************************************************************************)
despawn_contact ==
    /\ pc = "movement"
    /\ \E r \in contacts :
         /\ contacts' = contacts \ {r}
         /\ obs' = [sys |-> "despawn", id |-> r.id]
    /\ UNCHANGED <<world, pc, position, movement, items, carrying, askers,
                   cooldown, action_events, last_overlap, since_action, unitVars>>

InitDespawn ==
    /\ Init
    /\ world = "lounge"

NextDespawn ==
    \/ Next
    \/ despawn_contact

SpecDespawn == InitDespawn /\ [][NextDespawn]_vars

(***************************************************************************)
(* The tick in a host where another system removes components: between two *)
(* ticks Didi can lose its Position, the malformed state in which the       *)
(* queries of the systems miss Didi.                                        *)
(***************************************************************************)
remove_position ==
    /\ pc = "movement"
    /\ position # NoPos
    /\ position' = NoPos
    /\ obs' = [sys |-> "remove_position"]
    /\ UNCHANGED <<world, pc, movement, contacts, items, carrying, askers,
                   cooldown, action_events, last_overlap, since_action, unitVars>>

InitMalformed ==
    /\ Init
    /\ world = "kitchen"

NextMalformed ==
    \/ Next
    \/ remove_position

SpecMalformed == InitMalformed /\ [][NextMalformed]_vars

(***************************************************************************)
(* Contact as the key of a HashSet: contacts over a few entity ids are     *)
(* inserted one after the other.                                           *)
(***************************************************************************)
ProbeEntities == 1 .. MaxProbe

InitHash ==
    /\ Init
    /\ world = "room"

insert_contact ==
    /\ \E a \in ProbeEntities, b \in ProbeEntities :
         /\ hs' = hs_insert(hs, <<a, b>>)
         /\ obs' = [sys |-> "insert", c |-> <<a, b>>, before |-> hs]
    /\ UNCHANGED <<gameVars, legion_world, baobei_happiness, rolls, timer, timer_run, pubVars>>

NextHash == insert_contact

SpecHash == InitHash /\ [][NextHash]_vars

(***************************************************************************)
(* Cooldown on its own: a cooldown of any duration from 0 to MaxDuration   *)
(* is started and ticked in any order, as test_cooldown does.              *)
(***************************************************************************)
Durations == 0 .. MaxDuration

InitCooldown ==
    /\ InitGame
    /\ world = "room"
    /\ obs = NoObs
    /\ hs = {}
    /\ timer \in {from_seconds(seconds) : seconds \in Durations}
    /\ timer_run = NoRun
    /\ InitPublisher
    /\ rolls = NoCall
    /\ baobei_happiness = happy
    /\ legion_world = create_world

\* cd.start()
cooldown_start ==
    /\ timer' = start(timer)
    /\ timer_run' = [sum |-> 0, ticked |-> FALSE]
    /\ obs' = [sys |-> "start", cd |-> timer]
    /\ UNCHANGED <<gameVars, legion_world, baobei_happiness, rolls, hs, pubVars>>

\* cd.tick(delta)
cooldown_tick ==
    /\ \E delta \in 0 .. MaxDelta :
         /\ timer' = tick(timer, delta)
         /\ timer_run' = IF timer_run = NoRun THEN NoRun
                      ELSE [sum |-> Min(timer_run.sum + delta, timer.duration),
                            ticked |-> TRUE]
         /\ obs' = [sys |-> "tick", cd |-> timer, delta |-> delta]
    /\ UNCHANGED <<gameVars, legion_world, baobei_happiness, rolls, hs, pubVars>>

NextCooldown == cooldown_start \/ cooldown_tick

SpecCooldown == InitCooldown /\ [][NextCooldown]_vars

(***************************************************************************)
(* random_different_item on its own, one draw of its loop at a time.       *)
(***************************************************************************)
\* random::<Item>(): gen_range(0..=2) mapped to the three items
random == Items

\* fn random_different_item(item: Item): the call, before its first draw
call_random_different_item ==
    /\ rolls.returned
    /\ \E item \in Items :
         rolls' = [item |-> item, draws |-> <<>>, returned |-> FALSE]
    /\ obs' = [sys |-> "call"]
    /\ UNCHANGED <<gameVars, legion_world, baobei_happiness, hs, timer, timer_run, pubVars>>

\* one turn of the loop: a draw, and the return if it differs from item
reroll ==
    /\ ~rolls.returned
    /\ Len(rolls.draws) < MaxDraws
    /\ \E next_item \in random :
         rolls' = [rolls EXCEPT !.draws = Append(@, next_item),
                                !.returned = (next_item # rolls.item)]
    /\ obs' = [sys |-> "reroll"]
    /\ UNCHANGED <<gameVars, legion_world, baobei_happiness, hs, timer, timer_run, pubVars>>

InitReroll ==
    /\ Init
    /\ world = "room"

NextReroll == call_random_different_item \/ reroll

SpecReroll == InitReroll /\ [][NextReroll]_vars

(***************************************************************************)
(* Happiness on its own: the calls that decrease_happiness_system and the  *)
(* Give arm of handle_actions_system make on it, in any order.             *)
(***************************************************************************)
\* decrease_happiness_system: the repeating timer is ticked by the frame time
\* and the happiness is decreased when it has just finished
decrease_happiness_system ==
    /\ \E delta \in 0 .. MaxDelta :
         LET ticked == baobei_happiness.elapsed + delta
             just_finished == ticked >= HAPPINESS_SECONDS
         IN /\ baobei_happiness' =
                 [value |-> IF just_finished
                            THEN sub(baobei_happiness.value, HAPPINESS_DECREASE)
                            ELSE baobei_happiness.value,
                  elapsed |-> IF just_finished
                              THEN ticked - HAPPINESS_SECONDS
                              ELSE ticked]
            /\ obs' = [sys |-> "decrease", value |-> baobei_happiness.value,
                       finished |-> just_finished]
    /\ UNCHANGED <<gameVars, legion_world, hs, timer, timer_run, pubVars, rolls>>

\* happiness.sub(0.15): a Give of an item that is not the asked one
give_sub ==
    /\ baobei_happiness' =
         [baobei_happiness EXCEPT !.value = sub(@, GIVE_HAPPINESS)]
    /\ obs' = [sys |-> "give_sub", value |-> baobei_happiness.value]
    /\ UNCHANGED <<gameVars, legion_world, hs, timer, timer_run, pubVars, rolls>>

\* happiness.add(0.15): a Give of the asked item
give_add ==
    /\ baobei_happiness' =
         [baobei_happiness EXCEPT !.value = add(@, GIVE_HAPPINESS)]
    /\ obs' = [sys |-> "give_add", value |-> baobei_happiness.value]
    /\ UNCHANGED <<gameVars, legion_world, hs, timer, timer_run, pubVars, rolls>>

InitHappiness ==
    /\ Init
    /\ world = "lounge"

NextHappiness == decrease_happiness_system \/ give_sub \/ give_add

SpecHappiness == InitHappiness /\ [][NextHappiness]_vars

(***************************************************************************)
(* The game loop with the time going on: every frame runs the systems of   *)
(* the stage, and Time::delta_seconds is positive.                         *)
(***************************************************************************)
pick_or_drop_system_later == pick_or_drop_run(1 .. MaxDelta)

InitLive ==
    /\ Init
    /\ world = "kitchen"

NextLive ==
    \/ movement_system
    \/ collision_system
    \/ trigger_area_system
    \/ pick_or_drop_system_later
    \/ handle_actions_system

SpecLive == InitLive /\ [][NextLive]_vars /\ WF_vars(NextLive)

(***************************************************************************)
(* The legion World of the first version of the game: entities with or     *)
(* without the Event tag, a Position and a Velocity (src/src/events.rs,    *)
(* src/src/physics.rs).  An entity is [id, tagged, pos, vel, fresh]: fresh  *)
(* tells that it was inserted since the last clear.  Positions are counted *)
(* in tenths of a unit, velocities in units per second.  An Entity handle   *)
(* is never given twice.                                                    *)
(***************************************************************************)
NoVel == <<>>

\* *position += *velocity * dt, without the dt
moved_without_dt(e, dt) ==
    IF e.pos # NoPos /\ e.vel # NoVel
    THEN [e EXCEPT !.pos = Add(e.pos, e.vel)]
    ELSE e

\* <(Write<Position>, Read<Velocity>)>::query(): *position += *velocity * dt
moved(e, dt) ==
    IF e.pos # NoPos /\ e.vel # NoVel
    THEN [e EXCEPT !.pos = <<e.pos[1] + e.vel[1] * dt, e.pos[2] + e.vel[2] * dt>>]
    ELSE e

\* a clear that deletes nothing
cleared_none(entities) == {[e EXCEPT !.fresh = FALSE] : e \in entities}

\* clear_events: the entities left once those tagged Event are deleted
cleared(entities) ==
    {[e EXCEPT !.fresh = FALSE] : e \in {x \in entities : ~x.tagged}}

\* EventsExt::insert_event: one entity with the Event tag; the World notifies
\* the subscriber of its insertion
insert_event ==
    /\ legion_world.inserted < MaxEntities
    /\ legion_world' =
         [legion_world EXCEPT
            !.entities = @ \cup {[id |-> legion_world.inserted + 1,
                                  tagged |-> TRUE, pos |-> NoPos,
                                  vel |-> NoVel, fresh |-> TRUE]},
            !.inbox = Append(@, legion_world.inserted + 1),
            !.inserted = @ + 1]
    /\ obs' = [sys |-> "insert_event"]
    /\ UNCHANGED <<gameVars, hs, timer, timer_run, pubVars, rolls,
                   baobei_happiness>>

\* world.insert((), ..): an entity without the Event tag, with a Position and
\* with or without a Velocity
insert_entity ==
    /\ legion_world.inserted < MaxEntities
    /\ \E pos \in {<<0, 0>>, <<10, 10>>}, vel \in {NoVel, <<0, 0>>, <<1, 2>>} :
         legion_world' =
           [legion_world EXCEPT
              !.entities = @ \cup {[id |-> legion_world.inserted + 1,
                                    tagged |-> FALSE, pos |-> pos,
                                    vel |-> vel, fresh |-> TRUE]},
              !.inserted = @ + 1]
    /\ obs' = [sys |-> "insert"]
    /\ UNCHANGED <<gameVars, hs, timer, timer_run, pubVars, rolls,
                   baobei_happiness>>

\* physics::update
physics_update ==
    /\ legion_world.updates < MaxUpdates
    /\ \E dt \in 0 .. MaxDelta :
         /\ legion_world' =
              [legion_world EXCEPT
                 !.entities = {moved(e, dt) : e \in @},
                 !.updates = @ + 1]
         /\ obs' = [sys |-> "physics", dt |-> dt,
                    before |-> legion_world.entities]
    /\ UNCHANGED <<gameVars, hs, timer, timer_run, pubVars, rolls,
                   baobei_happiness>>

\* Subscriber::iter_events: the notifications are drained and those whose
\* entity still has the component are yielded
iter_events ==
    /\ legion_world.inbox # <<>>
    /\ legion_world' = [legion_world EXCEPT !.inbox = <<>>]
    /\ obs' = [sys |-> "iter_events",
               got |-> SelectSeq(legion_world.inbox,
                         LAMBDA n : \E e \in legion_world.entities : e.id = n)]
    /\ UNCHANGED <<gameVars, hs, timer, timer_run, pubVars, rolls,
                   baobei_happiness>>

\* EventsExt::clear_events, called at the end of GamePlay::update
clear_events ==
    /\ legion_world' =
         [legion_world EXCEPT !.entities = cleared(@)]
    /\ obs' = [sys |-> "clear", before |-> legion_world.entities]
    /\ UNCHANGED <<gameVars, hs, timer, timer_run, pubVars, rolls,
                   baobei_happiness>>

InitLegion ==
    /\ Init
    /\ world = "room"

NextLegion ==
    \/ insert_event
    \/ insert_entity
    \/ physics_update
    \/ iter_events
    \/ clear_events

SpecLegion == InitLegion /\ [][NextLegion]_vars

(***************************************************************************)
(* Publisher (src/src/publisher.rs) on its own: subscribers come, receive  *)
(* and drop their receiver while messages are published.  A channel is     *)
(* [queue, connected, since, received]: the messages sent and not yet      *)
(* received, whether its Receiver is alive, how many messages had been     *)
(* published when it was created, and what its Receiver has received.      *)
(***************************************************************************)
Messages == {12, 34}

\* a try_send that puts the message in front of those waiting
try_send_front(channel, message) ==
    IF channel.connected
    THEN [ok |-> TRUE,
          channel |-> [channel EXCEPT !.queue = <<message>> \o channel.queue]]
    ELSE [ok |-> FALSE, channel |-> channel]

\* Sender::try_send on an unbounded channel: fails only when disconnected
try_send(channel, message) ==
    IF channel.connected
    THEN [ok |-> TRUE,
          channel |-> [channel EXCEPT !.queue = Append(channel.queue, message)]]
    ELSE [ok |-> FALSE, channel |-> channel]

\* a retain that keeps every sender
RECURSIVE retain_all(_, _, _)
retain_all(i, message, st) ==
    IF i > Len(senders) THEN st
    ELSE LET sent == try_send(st.channels[senders[i]], message)
         IN retain_all(i + 1, message,
              [senders |-> Append(st.senders, senders[i]),
               channels |-> [st.channels EXCEPT ![senders[i]] = sent.channel]])

\* self.senders.retain(|sender| sender.try_send(message.clone()).is_ok()),
\* from the i-th sender on
RECURSIVE retain(_, _, _)
retain(i, message, st) ==
    IF i > Len(senders) THEN st
    ELSE LET sent == try_send(st.channels[senders[i]], message)
         IN retain(i + 1, message,
              [senders |-> IF sent.ok THEN Append(st.senders, senders[i])
                           ELSE st.senders,
               channels |-> [st.channels EXCEPT ![senders[i]] = sent.channel]])

\* Publisher::subscribe
subscribe ==
    /\ Len(channels) < MaxSubscribers
    /\ channels' = Append(channels, [queue |-> <<>>, connected |-> TRUE,
                                     since |-> Len(publications),
                                     received |-> <<>>])
    /\ senders' = Append(senders, Len(channels) + 1)
    /\ obs' = [sys |-> "subscribe"]
    /\ UNCHANGED <<gameVars, legion_world, baobei_happiness, rolls, hs, timer, timer_run, publications>>

\* Publisher::publish
publish ==
    /\ Len(publications) < MaxPublished
    /\ \E message \in Messages :
         LET done == retain(1, message, [senders |-> <<>>, channels |-> channels])
         IN /\ senders' = done.senders
            /\ channels' = done.channels
            /\ publications' = Append(publications, message)
            /\ obs' = [sys |-> "publish", message |-> message,
                       senders |-> senders, channels |-> channels]
    /\ UNCHANGED <<gameVars, legion_world, baobei_happiness, rolls, hs, timer, timer_run>>

\* Receiver::try_recv by the holder of the receiver of a channel: got is
\* <<>> for Err(Empty) and <<message>> for Ok(message)
try_recv ==
    /\ \E c \in DOMAIN channels :
         /\ channels[c].connected
         /\ IF channels[c].queue = <<>>
            THEN /\ obs' = [sys |-> "try_recv", channel |-> c, got |-> <<>>]
                 /\ UNCHANGED channels
            ELSE /\ obs' = [sys |-> "try_recv", channel |-> c,
                            got |-> <<Head(channels[c].queue)>>]
                 /\ channels' =
                      [channels EXCEPT
                         ![c].queue = Tail(@),
                         ![c].received = Append(@, Head(channels[c].queue))]
    /\ UNCHANGED <<gameVars, legion_world, baobei_happiness, rolls, hs, timer, timer_run, senders, publications>>

\* drop(receiver)
drop_receiver ==
    /\ \E c \in DOMAIN channels :
         /\ channels[c].connected
         /\ channels' = [channels EXCEPT ![c].connected = FALSE]
         /\ obs' = [sys |-> "drop", channel |-> c]
    /\ UNCHANGED <<gameVars, legion_world, baobei_happiness, rolls, hs, timer, timer_run, senders, publications>>

InitPublisherOnly ==
    /\ Init
    /\ world = "room"

NextPublisher == subscribe \/ publish \/ try_recv \/ drop_receiver

SpecPublisher == InitPublisherOnly /\ [][NextPublisher]_vars

(***************************************************************************)
(* Properties.                                                             *)
(***************************************************************************)
\* a pair of entities without its order
Unordered(c) == {c[1], c[2]}

\* the ContactEvents of the last contact pass that are about the pair p
events_about(p) == {e \in obs.sent : Unordered(e[2]) = Unordered(p)}

\* C1: there is never more than one Contact record for an unordered pair of
\* entities, and right after a pass of trigger_area_system the pairs that
\* have a record are exactly the (moving collider, trigger area) pairs that
\* overlap at the positions of that pass.
C1_RecordsAreTheOverlaps ==
    /\ \A r, q \in contacts : Unordered(r.c) = Unordered(q.c) => r = q
    /\ obs.sys = "trigger" =>
         {Unordered(r.c) : r \in contacts}
           = {Unordered(p) : p \in overlapping_pairs}

\* a pass that changed the records and left two of them
C1_Witness ==
    /\ obs.sys = "trigger"
    /\ Cardinality(contacts) = 2
    /\ obs.prev # contacts
    /\ obs.prev # {}

\* C2: a pair that overlaps in a pass has exactly one record after it; if it
\* did not overlap in the pass before, exactly one event, a Started, is sent
\* for it; if it did, no event is sent for it and its record is the one it
\* had before the pass.
C2_SteadyContact ==
    obs.sys = "trigger" =>
      \A p \in overlapping_pairs :
        LET now == {r \in contacts : Unordered(r.c) = Unordered(p)}
            was == {r \in obs.prev : Unordered(r.c) = Unordered(p)}
        IN /\ Cardinality(now) = 1
           /\ IF \E q \in obs.before : Unordered(q) = Unordered(p)
              THEN events_about(p) = {} /\ now = was
              ELSE /\ Cardinality(events_about(p)) = 1
                   /\ \A e \in events_about(p) : e[1] = "Started"

\* a second pass in a row in which Didi overlaps the shelf's area
C2_Witness ==
    /\ obs.sys = "trigger"
    /\ <<DIDI, SHELF>> \in overlapping_pairs
    /\ <<DIDI, SHELF>> \in obs.before
    /\ events_about(<<DIDI, SHELF>>) = {}
    /\ \E r \in contacts : r.c = <<DIDI, SHELF>> /\ r \in obs.prev

\* C3: when a pair that had a record does not overlap in a pass, exactly one
\* Stopped is sent for it and its record is gone after the pass; a Stopped
\* is only sent for a pair that had a record and does not overlap, so none
\* is sent again while the pair stays apart.
C3_StoppedOnce ==
    obs.sys = "trigger" =>
      /\ \A r \in obs.prev :
           (~\E p \in overlapping_pairs : Unordered(p) = Unordered(r.c)) =>
             /\ events_about(r.c) = {<<"Stopped", r.c>>}
             /\ ~\E q \in contacts : Unordered(q.c) = Unordered(r.c)
      /\ \A e \in obs.sent :
           e[1] = "Stopped" =>
             /\ \E r \in obs.prev : Unordered(r.c) = Unordered(e[2])
             /\ ~\E p \in overlapping_pairs : Unordered(p) = Unordered(e[2])

\* Didi left the area of the sink: its contact stopped in this pass
C3_Witness ==
    /\ obs.sys = "trigger"
    /\ <<"Stopped", <<DIDI, SINK>>>> \in obs.sent
    /\ ~\E r \in contacts : r.c = <<DIDI, SINK>>

\* C4: Contact(a, b) == Contact(b, a), both feed the same value to the
\* hasher, and a HashSet that holds one of them is not changed by the
\* insertion of the other.
C4_ContactSymmetry ==
    obs.sys = "insert" =>
      LET c == obs.c
          inverted == <<c[2], c[1]>>
      IN /\ ContactEq(c, inverted)
         /\ ContactHash(c) = ContactHash(inverted)
         /\ inverted \in obs.before => hs = obs.before
         /\ \A x, y \in hs : Unordered(x) = Unordered(y) => x = y

\* Contact(2, 1) was inserted into a set that held Contact(1, 2)
C4_Witness ==
    /\ obs.sys = "insert"
    /\ obs.c = <<2, 1>>
    /\ <<1, 2>> \in obs.before
    /\ hs = obs.before

\* C5: no Contact record and no ContactEvent has the same entity twice.
C5_NoSelfContact ==
    /\ \A r \in contacts : r.c[1] # r.c[2]
    /\ obs.sys = "trigger" => \A e \in obs.sent : e[2][1] # e[2][2]

\* C6: a diagonal movement whose x part alone would collide and whose y part
\* alone would not leaves x and advances y by dy.
C6_Slides ==
    ( /\ obs.sys = "collision"
      /\ obs.by[1] # 0
      /\ obs.by[2] # 0
      /\ ~will_not_collide(world, Add(obs.from, <<obs.by[1], 0>>))
      /\ will_not_collide(world, Add(obs.from, <<0, obs.by[2]>>)) )
    => position = <<obs.from[1], obs.from[2] + obs.by[2]>>

\* Didi slid up along the left border
C6_Witness ==
    /\ obs.sys = "collision"
    /\ obs.from = <<0, 0>>
    /\ obs.by = <<-1, 1>>
    /\ ~will_not_collide(world, <<-1, 0>>)
    /\ position = <<0, 1>>

\* C7: a pass of pick_or_drop_system sends at most one ActionEvent.
C7_OneActionPerTick == Len(action_events) <= 1

\* C8: when an action fires while Didi is in contact with an item producer
\* and with an asker, every event sent is a Take, a PutAway or a Keep.
C8_ProducerFirst ==
    ( /\ obs.sys = "pick"
      /\ producers_in_contact # {}
      /\ askers_in_contact # {}
      /\ action_events # <<>> )
    => \A i \in 1 .. Len(action_events) :
         action_events[i].type \in {"Take", "PutAway", "Keep"}

\* Didi carries the water glass Baobei asks for, at the shelf and at Baobei
C8_Witness ==
    /\ obs.sys = "pick"
    /\ producers_in_contact # {}
    /\ askers_in_contact # {}
    /\ carrying = "WaterGlass"
    /\ askers[BAOBEI].asking_item = "WaterGlass"
    /\ action_events = <<Keep("WaterGlass")>>

\* C9: a pass sends an ActionEvent only if Space is pressed and the cooldown,
\* ticked by the frame time, is available.
C9_Gate ==
    (obs.sys = "pick" /\ action_events # <<>>)
    => /\ obs.space
       /\ obs.cd.available \/ obs.cd.remaining - obs.delta <= 0

\* an action fired in the pass in which the cooldown ran out
C9_Witness ==
    /\ obs.sys = "pick"
    /\ action_events # <<>>
    /\ ~obs.cd.available
    /\ obs.space

\* C10: a pass that sends an ActionEvent leaves the cooldown started, and it
\* sends one only if no ActionEvent was sent before or the frame times ticked
\* since the last one sum to the cooldown's duration at least.
C10_CooldownBetweenActions ==
    (obs.sys = "pick" /\ action_events # <<>>)
    => /\ ~cooldown.available
       /\ cooldown.remaining = COOLDOWN_SECONDS
       /\ obs.since = Never \/ obs.since >= COOLDOWN_SECONDS

\* a further action, in the first pass after the cooldown has elapsed
C10_Witness ==
    /\ obs.sys = "pick"
    /\ action_events # <<>>
    /\ obs.since = COOLDOWN_SECONDS
    /\ obs.cd.remaining = obs.delta
    /\ ~cooldown.available

\* C11: once started, a cooldown of duration T is not available while the
\* deltas ticked since the start sum to less than T, it is available from
\* the tick on with which they reach T, and its remaining time is never
\* negative.
C11_CooldownGating ==
    /\ timer.remaining >= 0
    /\ timer_run # NoRun =>
         /\ timer_run.sum < timer.duration => ~timer.available
         /\ (timer_run.ticked /\ timer_run.sum >= timer.duration)
              => timer.available /\ timer.remaining = 0

\* the tick that brings the sum of several deltas to the duration
C11_Witness ==
    /\ obs.sys = "tick"
    /\ timer_run # NoRun
    /\ ~obs.cd.available
    /\ 0 < obs.delta /\ obs.delta < timer.duration
    /\ timer_run.sum = timer.duration
    /\ timer.available

\* C12: a cooldown is available if and only if its remaining time is 0,
\* whatever its duration, after any calls of start and tick.
C12_AvailableIffZero == timer.available <=> timer.remaining = 0

\* C13: random_different_item(X) never returns X, and after a Give of the
\* item an asker asks for, the asker asks for another item.
C13_NeverAskedTwice ==
    /\ \A X \in Items : X \notin random_different_item(X)
    /\ obs.sys = "handle" =>
         \A i \in 1 .. Len(obs.read) :
           obs.read[i].type = "Give" =>
             \A a \in DOMAIN askers :
               obs.askers[a].asking_item = obs.read[i].item =>
                 askers[a].asking_item # obs.read[i].item

\* Baobei asked for a glass of water, got it and now asks for chips
C13_Witness ==
    /\ obs.sys = "handle"
    /\ obs.read = <<Give("WaterGlass")>>
    /\ obs.askers[BAOBEI].asking_item = "WaterGlass"
    /\ askers[BAOBEI].asking_item = "Chips"
    /\ carrying = NoItem

\* C14: handled with empty hands, PickUp(e, item) leaves Didi carrying item
\* and e in hand; Drop(item) leaves Didi with empty hands and every item
\* that was in hand on the ground, with a Position and a TriggerArea that
\* overlaps Didi's collider where Didi stands; and an action that fires with
\* empty hands in contact with an item on the ground and with no producer is
\* the PickUp of such an item.
C14_PickUpDropRoundTrip ==
    /\ obs.sys = "handle" =>
         /\ \A it \in items :
              (obs.read = <<PickUp(it.id, it.item)>> /\ obs.carrying = NoItem)
                => carrying = it.item /\ it.carried /\ it.pos = NoPos
         /\ \A item \in Items :
              (obs.read = <<Drop(item)>> /\ obs.carrying = item) =>
                /\ carrying = NoItem
                /\ \E it \in items : it.item = item /\ it.pos # NoPos
                /\ \A it \in items :
                     /\ ~it.carried
                     /\ it.pos # NoPos
                     /\ it.pos = Add(position, DROP_OFFSET) =>
                          collide(position, didi_collider.size, it.pos, ITEM_AREA)
    /\ ( /\ obs.sys = "pick"
         /\ action_events # <<>>
         /\ carrying = NoItem
         /\ producers_in_contact = {}
         /\ items_in_contact # {} )
       => \E it \in items :
            /\ \E r \in items_in_contact : r.c[2] = it.id
            /\ it.pos # NoPos
            /\ action_events = <<PickUp(it.id, it.item)>>

\* a bag of chips that was dropped is picked up from the ground
C14_Witness ==
    /\ obs.sys = "handle"
    /\ obs.carrying = NoItem
    /\ carrying = "Chips"
    /\ \E it \in items :
         /\ obs.read = <<PickUp(it.id, "Chips")>>
         /\ it.carried

\* C15: the systems of a tick take effect in the order movement, collision,
\* contacts, actions, handling, and the Contact records that
\* pick_or_drop_system reads are those of the pairs that overlap at the
\* positions collision_system produced in the same tick.
C15_ContactsOfTheSameTick ==
    /\ obs.sys = "collision" => pc = "trigger"
    /\ obs.sys = "trigger" => pc = "pick"
    /\ obs.sys = "pick" =>
         {Unordered(r.c) : r \in contacts}
           = {Unordered(p) : p \in overlapping_pairs}

\* the messages published since the channel c was created
due(c) == SubSeq(publications, channels[c].since + 1, Len(publications))

\* C16: what a receiver has received, followed by what waits in its channel,
\* is the sequence of the messages published since its subscription, each
\* once and in the order of publication, whatever the other subscribers do;
\* a receiver that was dropped has received a prefix of it; and try_recv
\* finds the channel empty only when all of it was received.
C16_EachMessageOnceInOrder ==
    /\ \A c \in DOMAIN channels :
         IF channels[c].connected
         THEN channels[c].received \o channels[c].queue = due(c)
         ELSE /\ Len(channels[c].received) <= Len(due(c))
              /\ channels[c].received
                   = SubSeq(due(c), 1, Len(channels[c].received))
    /\ (obs.sys = "try_recv" /\ obs.got = <<>>)
         => channels[obs.channel].received = due(obs.channel)

\* two receivers, the second subscribed after the first publication, have
\* each received all that was published since they subscribed
C16_Witness ==
    /\ Len(channels) = 2
    /\ publications = <<12, 34, 12>>
    /\ channels[1].connected /\ channels[2].connected
    /\ channels[1].received = <<12, 34, 12>>
    /\ channels[2].since = 1
    /\ channels[2].received = <<34, 12>>

\* C17: a publish leaves in the sender list the senders whose receiver is
\* alive, in their order, and no other; it adds the message once at the end
\* of the channel of each of them and leaves the other channels as they are.
C17_DisconnectedRemoved ==
    obs.sys = "publish" =>
      /\ senders = SelectSeq(obs.senders,
                             LAMBDA c : obs.channels[c].connected)
      /\ \A i \in 1 .. Len(obs.senders) :
           LET c == obs.senders[i]
           IN IF obs.channels[c].connected
              THEN channels[c].queue = Append(obs.channels[c].queue, obs.message)
              ELSE channels[c] = obs.channels[c]

\* the first of two receivers was dropped before the publication
C17_Witness ==
    /\ obs.sys = "publish"
    /\ obs.senders = <<1, 2>>
    /\ ~obs.channels[1].connected
    /\ obs.channels[2].connected
    /\ senders = <<2>>
    /\ channels[2].queue = <<obs.message>>

\* the static colliders that Didi's collider overlaps when Didi is at p
hit_at(p) ==
    {b \in static_colliders(world) :
       collide(Add(p, didi_collider.offset), didi_collider.size,
               Add(b.pos, b.offset), b.size)}

\* C18 as stated: the y update is committed if and only if no static
\* collider overlaps the moving collider at (original x, original y + dy).
C18_YIndependentOfX ==
    (obs.sys = "collision" /\ obs.by[2] # 0) =>
      ( position[2] = obs.from[2] + obs.by[2]
          <=> hit_at(<<obs.from[1], obs.from[2] + obs.by[2]>>) = {} )

\* C18, amended: the y update is committed if and only if no static
\* collider overlaps the moving collider at (x after the x decision,
\* original y + dy).
C18_YAfterX ==
    (obs.sys = "collision" /\ obs.by[2] # 0) =>
      ( position[2] = obs.from[2] + obs.by[2]
          <=> hit_at(<<position[1], obs.from[2] + obs.by[2]>>) = {} )

\* Didi moves diagonally towards the corner of the furniture: x is committed,
\* and y is not although nothing is hit at (original x, original y + dy)
C18_Witness ==
    /\ obs.sys = "collision"
    /\ obs.by[1] # 0 /\ obs.by[2] # 0
    /\ position[1] = obs.from[1] + obs.by[1]
    /\ position[2] = obs.from[2]
    /\ hit_at(<<obs.from[1], obs.from[2] + obs.by[2]>>) = {}
    /\ hit_at(<<position[1], obs.from[2] + obs.by[2]>>) # {}

\* C19: after a pass of collision_system the Movement is zero, whether the
\* updates were committed or not.
C19_MovementReset == obs.sys = "collision" => movement = <<0, 0>>

\* a diagonal movement that was blocked on both axes and is reset
C19_Witness ==
    /\ obs.sys = "collision"
    /\ obs.by[1] # 0 /\ obs.by[2] # 0
    /\ position = obs.from
    /\ movement = <<0, 0>>

\* C20: an axis is not updated when at least one static collider overlaps the
\* moving collider at the candidate position of that axis, whatever the
\* other static colliders are.
C20_AnyColliderBlocks ==
    obs.sys = "collision" =>
      /\ (obs.by[1] # 0 /\ hit_at(<<obs.from[1] + obs.by[1], obs.from[2]>>) # {})
           => position[1] = obs.from[1]
      /\ (obs.by[2] # 0 /\ hit_at(<<position[1], obs.from[2] + obs.by[2]>>) # {})
           => position[2] = obs.from[2]

\* one of several static colliders is hit on the x axis, and x is kept
C20_Witness ==
    /\ obs.sys = "collision"
    /\ obs.by[1] # 0
    /\ Cardinality(hit_at(<<obs.from[1] + obs.by[1], obs.from[2]>>)) = 1
    /\ Cardinality(static_colliders(world)) > 1
    /\ position[1] = obs.from[1]

\* the trigger areas that Didi's collider overlaps when Didi is at p, by the
\* test of collision_system
areas_at(p) ==
    {t \in trigger_areas :
       /\ t.e # DIDI
       /\ collide(Add(p, didi_collider.offset), didi_collider.size, t.pos, t.size)}

\* C21: trigger areas never block movement: an axis on which no static
\* collider is hit at the candidate position is updated, whatever trigger
\* areas the candidate position overlaps, so the position after the pass is
\* the one the static colliders alone decide.
C21_AreasDoNotBlock ==
    obs.sys = "collision" =>
      LET x_free == hit_at(<<obs.from[1] + obs.by[1], obs.from[2]>>) = {}
          after_x == IF x_free THEN obs.from[1] + obs.by[1] ELSE obs.from[1]
          y_free == hit_at(<<after_x, obs.from[2] + obs.by[2]>>) = {}
      IN /\ position[1] = after_x
         /\ position[2] = IF y_free THEN obs.from[2] + obs.by[2] ELSE obs.from[2]

\* Didi walked into the place where its collider overlaps the area of the
\* shelf
C21_Witness ==
    /\ obs.sys = "collision"
    /\ obs.by[1] # 0
    /\ position = Add(obs.from, obs.by)
    /\ areas_at(position) # {}
    /\ areas_at(obs.from) = {}

\* whether the ActionEvent e is among those the last pass of
\* handle_actions_system has read
was_read(e) == \E i \in 1 .. Len(obs.read) : obs.read[i] = e

\* C22: when an action fired while Didi was in contact with an item
\* producer, then once it is handled: if Didi carried the producer's item a
\* PutAway of it was sent and Didi carries nothing; if Didi carried another
\* item a Keep of it was sent and Didi carries it still; if Didi carried
\* nothing a Take of the produced item was sent and Didi carries that item.
C22_ProducerTransitions ==
    (obs.sys = "handle" /\ obs.read # <<>>) =>
      \A r \in producers_in_contact :
        LET produced == produced_item(r.c[2])
        IN /\ obs.carrying = produced =>
                was_read(PutAway(produced)) /\ carrying = NoItem
           /\ obs.carrying \notin {NoItem, produced} =>
                was_read(Keep(obs.carrying)) /\ carrying = obs.carrying
           /\ obs.carrying = NoItem =>
                was_read(Take(produced)) /\ carrying = produced

\* C23: when an action fired while Didi was in contact with an asker and with
\* no producer, carrying the item the asker asked for, then the event sent
\* is Give(item) and, once it is handled, Didi carries nothing, the items
\* that were in hand are gone and no other item is, and the asker's
\* happiness is the one it had plus 0.15, at most 1.
C23_GiveMatching ==
    ( /\ obs.sys = "handle"
      /\ obs.read # <<>>
      /\ producers_in_contact = {} )
    => \A r \in askers_in_contact :
         LET a == r.c[2]
         IN (obs.carrying # NoItem /\ obs.askers[a].asking_item = obs.carrying)
            => /\ obs.read = <<Give(obs.carrying)>>
               /\ carrying = NoItem
               /\ items = {it \in obs.items : ~it.carried}
               /\ \E it \in obs.items : it.carried /\ it.item = obs.carrying
               /\ askers[a].happiness
                    = Min(obs.askers[a].happiness + GIVE_HAPPINESS, HAPPY)

\* Baobei, made unhappy by a wrong item before, is given the bag of chips it
\* asks for
C23_Witness ==
    /\ obs.sys = "handle"
    /\ producers_in_contact = {}
    /\ askers_in_contact # {}
    /\ obs.read = <<Give("Chips")>>
    /\ obs.askers[BAOBEI].asking_item = "Chips"
    /\ obs.askers[BAOBEI].happiness = HAPPY - 2 * GIVE_HAPPINESS
    /\ askers[BAOBEI].happiness = HAPPY - GIVE_HAPPINESS
    /\ carrying = NoItem
    /\ items = {}

\* C24: when an action fired while Didi was in contact with an asker and with
\* no producer, carrying an item other than the one asked for, then the only
\* event sent is Give(item), so no Drop is sent, the cooldown is started,
\* and once the event is handled the asker's happiness is the one it had
\* minus 0.15, at least 0, while Didi's Carrying, the items and the asked
\* item are as they were.
C24_GiveMismatch ==
    ( /\ obs.sys = "handle"
      /\ obs.read # <<>>
      /\ producers_in_contact = {} )
    => \A r \in askers_in_contact :
         LET a == r.c[2]
         IN (obs.carrying # NoItem /\ obs.askers[a].asking_item # obs.carrying)
            => /\ obs.read = <<Give(obs.carrying)>>
               /\ carrying = obs.carrying
               /\ items = obs.items
               /\ askers[a].asking_item = obs.askers[a].asking_item
               /\ askers[a].happiness
                    = Max(obs.askers[a].happiness - GIVE_HAPPINESS, 0)
               /\ ~cooldown.available
               /\ cooldown.remaining = COOLDOWN_SECONDS

\* Baobei asks for an ice cream and is offered a bag of chips once more, with
\* less happiness left than the delta
C24_Witness ==
    /\ obs.sys = "handle"
    /\ producers_in_contact = {}
    /\ askers_in_contact # {}
    /\ obs.read = <<Give("Chips")>>
    /\ obs.askers[BAOBEI].asking_item = "IceCream"
    /\ obs.askers[BAOBEI].happiness = HAPPY - 6 * GIVE_HAPPINESS
    /\ askers[BAOBEI].happiness = 0
    /\ carrying = "Chips"
    /\ ~cooldown.available

\* whether the last pass of pick_or_drop_system got past its gate
action_fired == gate(tick(obs.cd, obs.delta), obs.space)

\* C25: a pass of pick_or_drop_system sends a Drop exactly when it gets past
\* its gate while Didi carries an item and has a Contact with no producer
\* and no asker, and it is then the Drop of the item carried and the only
\* event; once handled, Didi carries nothing and every item that was in hand
\* is no longer a CarriedItem and has a Position next to Didi, with which its
\* TriggerArea is tested, the other items being as they were.
C25_DropExactlyWhen ==
    /\ obs.sys = "pick" =>
         /\ (\E i \in 1 .. Len(action_events) : action_events[i].type = "Drop")
              <=> ( /\ action_fired
                    /\ carrying # NoItem
                    /\ producers_in_contact = {}
                    /\ askers_in_contact = {} )
         /\ (\E i \in 1 .. Len(action_events) : action_events[i].type = "Drop")
              => action_events = <<Drop(carrying)>>
    /\ (obs.sys = "handle" /\ \E item \in Items : obs.read = <<Drop(item)>>) =>
         /\ carrying = NoItem
         /\ items = {IF it.carried
                     THEN [it EXCEPT !.carried = FALSE,
                                     !.pos = Add(position, DROP_OFFSET)]
                     ELSE it : it \in obs.items}
         /\ \A it \in items : it.pos # NoPos

\* the glass of water taken at the sink is dropped on the free floor
C25_Witness ==
    /\ obs.sys = "handle"
    /\ obs.read = <<Drop("WaterGlass")>>
    /\ obs.carrying = "WaterGlass"
    /\ didi_contacts = {}
    /\ carrying = NoItem
    /\ \E it \in items :
         it.item = "WaterGlass" /\ ~it.carried /\ it.pos = Add(position, DROP_OFFSET)

\* C26: a pass of pick_or_drop_system sends PickUp(e, item) only if it gets
\* past its gate while Didi carries nothing, has a Contact with no producer
\* and has one with e, an entity on the ground whose Item is item, and it is
\* then the only event; once handled, Didi carries item and e has no
\* Position and no TriggerArea any more, the other items being as they were.
C26_PickUpOnlyWhen ==
    /\ obs.sys = "pick" =>
         \A i \in 1 .. Len(action_events) :
           action_events[i].type = "PickUp" =>
             /\ action_fired
             /\ carrying = NoItem
             /\ producers_in_contact = {}
             /\ action_events = <<action_events[i]>>
             /\ \E r \in didi_contacts, it \in items :
                  /\ r.c[2] = it.id
                  /\ it.pos # NoPos /\ ~it.carried
                  /\ action_events[i] = PickUp(it.id, it.item)
    /\ obs.sys = "handle" =>
         \A old \in obs.items :
           obs.read = <<PickUp(old.id, old.item)>> =>
             /\ carrying = old.item
             /\ items = {IF it.id = old.id
                         THEN [it EXCEPT !.carried = TRUE, !.pos = NoPos]
                         ELSE it : it \in obs.items}
             /\ \A t \in trigger_areas : t.e # old.id

\* of the two items lying on the floor, the glass of water is picked up and
\* the other stays where it is
C26_Witness ==
    /\ obs.sys = "handle"
    /\ obs.carrying = NoItem
    /\ carrying = "WaterGlass"
    /\ \E old \in obs.items :
         /\ old.pos # NoPos
         /\ obs.read = <<PickUp(old.id, "WaterGlass")>>
         /\ \E it \in items : it.id = old.id /\ it.pos = NoPos
         /\ \E it \in items : it.id # old.id /\ it.pos # NoPos /\ it \in obs.items

\* C27: a pass of pick_or_drop_system that gets past its gate while Didi
\* carries nothing and has no Contact with a producer or with an item sends
\* no ActionEvent and leaves the cooldown available; and a pass of
\* handle_actions_system that reads no event leaves Didi's Carrying, the
\* items, the asked item and the happiness as they were.
C27_NothingToDo ==
    /\ ( /\ obs.sys = "pick"
         /\ action_fired
         /\ carrying = NoItem
         /\ producers_in_contact = {}
         /\ items_in_contact = {} )
       => /\ action_events = <<>>
          /\ cooldown.available
          /\ cooldown.remaining = 0
    /\ (obs.sys = "handle" /\ obs.read = <<>>)
       => /\ carrying = obs.carrying
          /\ items = obs.items
          /\ askers = obs.askers

\* Space is pressed with empty hands next to Baobei, in the pass in which
\* the cooldown of an earlier action runs out
C27_Witness ==
    /\ obs.sys = "pick"
    /\ obs.space
    /\ ~obs.cd.available
    /\ action_fired
    /\ carrying = NoItem
    /\ didi_contacts # {}
    /\ didi_contacts = askers_in_contact
    /\ action_events = <<>>
    /\ cooldown.available

\* the pairs that overlapped in the pass before and whose record was gone
\* when the last pass of trigger_area_system started
lost_records ==
    {p \in obs.before : ~\E r \in obs.prev : Unordered(r.c) = Unordered(p)}

\* C28: when the entity of a Contact record was despawned by another system
\* between two ticks, the next pass of trigger_area_system finds a handle
\* for every contact it stops, despawns only entities that were alive when
\* it started, sends no Stopped for the pair whose record was gone, and
\* leaves exactly one record for every pair that overlaps.
C28_MissingRecordTolerated ==
    obs.sys = "trigger" =>
      /\ obs.missing = {}
      /\ obs.despawned \subseteq {r.id : r \in obs.prev}
      /\ \A p \in lost_records : <<"Stopped", p>> \notin obs.sent
      /\ {Unordered(r.c) : r \in contacts}
           = {Unordered(p) : p \in overlapping_pairs}
      /\ \A r, q \in contacts : Unordered(r.c) = Unordered(q.c) => r = q

\* the record of Didi and the sink was despawned, Didi left the sink and the
\* pass that followed stopped another contact
C28_Witness ==
    /\ obs.sys = "trigger"
    /\ lost_records # {}
    /\ \E p \in lost_records : p \notin overlapping_pairs
    /\ obs.despawned # {}

\* C29: when Didi lacks a component that the action systems expect, no
\* Carrying in pick_or_drop_system or no Position when a Drop is handled,
\* the action is skipped for the tick and the program does not panic.
C29_NoPanic == pc # "panic"

\* C30: random_different_item makes a bounded number of draws: whatever the
\* draws are, it has returned once it has made MaxDraws of them.
C30_BoundedRerolls == Len(rolls.draws) >= MaxDraws => rolls.returned

\* C31: a tick of a cooldown that is available leaves it as it is, available
\* with no remaining time, whatever the delta; and a start, also one issued
\* after the cooldown has elapsed, leaves it unavailable with its whole
\* duration remaining.
C31_TickWhenAvailable ==
    /\ (obs.sys = "tick" /\ obs.cd.available) =>
         /\ timer = obs.cd
         /\ timer.available
         /\ timer.remaining = 0
    /\ obs.sys = "start" =>
         /\ ~timer.available
         /\ timer.remaining = timer.duration
         /\ timer.duration = obs.cd.duration

\* a cooldown that was started and has elapsed is ticked once more
C31_Witness ==
    /\ obs.sys = "tick"
    /\ obs.cd.available
    /\ obs.delta > 0
    /\ timer_run # NoRun
    /\ timer_run.ticked
    /\ timer.duration > 0
    /\ timer = obs.cd

\* C32: the happiness is between 0 and 1 in every state: it starts at 1, and
\* the periodic decrease of 0.05, the 0.15 added for the asked item and the
\* 0.15 subtracted for another one each leave it clamped, in any order.
C32_HappinessInRange ==
    /\ 0 <= baobei_happiness.value
    /\ baobei_happiness.value <= HAPPY
    /\ obs.sys = "none" => baobei_happiness.value = HAPPY
    /\ \A a \in DOMAIN askers :
         0 <= askers[a].happiness /\ askers[a].happiness <= HAPPY

\* a happiness of 0.05 from which 0.15 is subtracted is 0
C32_Witness ==
    /\ obs.sys = "give_sub"
    /\ obs.value = HAPPINESS_DECREASE
    /\ baobei_happiness.value = 0


\* the entity of the legion World with the given handle
entity_of(n) == CHOOSE e \in legion_world.entities : e.id = n

\* C33: an event lives only in the tick that produced it: every entity with
\* the Event tag was inserted since the last clear, a subscriber is never
\* given an event of an earlier tick, and the clear deletes every event and
\* no other entity.
C33_EventsLiveOneTick ==
    /\ \A e \in legion_world.entities : e.tagged => e.fresh
    /\ obs.sys = "iter_events" =>
         \A i \in 1 .. Len(obs.got) :
            entity_of(obs.got[i]).tagged /\ entity_of(obs.got[i]).fresh
    /\ obs.sys = "clear" =>
         /\ \A e \in legion_world.entities : ~e.tagged
         /\ \A b \in obs.before :
              ~b.tagged =>
                \E a \in legion_world.entities :
                   a.id = b.id /\ a.pos = b.pos /\ a.vel = b.vel

\* a subscriber that reads after the clear is given nothing, although
\* notifications of the earlier tick were waiting, and another entity is
\* still in the World
C33_Witness ==
    /\ obs.sys = "iter_events"
    /\ obs.got = <<>>
    /\ legion_world.entities # {}
    /\ legion_world.inserted = MaxEntities

\* C34: physics::update(dt) moves every entity that has a Position and a
\* Velocity to position + velocity * dt, leaves the entities without a
\* velocity or with a zero velocity where they are, and neither adds nor
\* removes an entity.
C34_PhysicsUpdate ==
    obs.sys = "physics" =>
      /\ {e.id : e \in legion_world.entities} = {e.id : e \in obs.before}
      /\ Cardinality(legion_world.entities) = Cardinality(obs.before)
      /\ \A b \in obs.before :
           \E a \in legion_world.entities :
              /\ a.id = b.id /\ a.tagged = b.tagged /\ a.vel = b.vel
              /\ a.pos = IF b.pos # NoPos /\ b.vel # NoVel
                         THEN <<b.pos[1] + b.vel[1] * obs.dt,
                                b.pos[2] + b.vel[2] * obs.dt>>
                         ELSE b.pos
              /\ b.vel \in {NoVel, <<0, 0>>} => a.pos = b.pos

\* an update of two tenths of a second over a moving entity, an entity with a
\* zero velocity and an entity without velocity
C34_Witness ==
    /\ obs.sys = "physics"
    /\ obs.dt = 2
    /\ \E b \in obs.before : b.vel = <<1, 2>> /\ b.pos = <<10, 10>>
    /\ \E b \in obs.before : b.vel = <<0, 0>>
    /\ \E b \in obs.before : b.vel = NoVel /\ ~b.tagged
    /\ \E a \in legion_world.entities : a.pos = <<12, 14>>

\* C35: non-penetration: when Didi's collider overlaps no static collider
\* before a pass of collision_system, it overlaps none after the pass,
\* whatever the movement.
C35_NonPenetration ==
    (obs.sys = "collision" /\ obs.from # NoPos /\ hit_at(obs.from) = {}) =>
      hit_at(position) = {}

\* a diagonal movement into a corner: the x candidate hits one static
\* collider, the y candidate hits another one, the place aimed at is inside
\* a collider and Didi ends outside of all of them
C35_Witness ==
    /\ obs.sys = "collision"
    /\ obs.from # NoPos
    /\ obs.by[1] # 0 /\ obs.by[2] # 0
    /\ hit_at(obs.from) = {}
    /\ hit_at(Add(obs.from, obs.by)) # {}
    /\ hit_at(<<obs.from[1] + obs.by[1], obs.from[2]>>) # {}
    /\ hit_at(<<obs.from[1], obs.from[2] + obs.by[2]>>) # {}
    /\ hit_at(<<obs.from[1] + obs.by[1], obs.from[2]>>)
         # hit_at(<<obs.from[1], obs.from[2] + obs.by[2]>>)
    /\ hit_at(position) = {}

\* the entities that can hold a TriggerArea at some time of the game
area_entities ==
    {p.e : p \in item_producers(world)} \cup {a.e : a \in item_askers(world)}
    \cup ItemIds \cup (IF didi_area(world) = {} THEN {} ELSE {DIDI})

\* C36: every persisted Contact record holds the moving collider first and
\* the entity of the trigger area second, a record spawned by a pass holds
\* an entity that has a TriggerArea at that pass, and the filter
\* contact.0 == didi selects every record in which Didi takes part.
C36_ContactOrientation ==
    /\ \A r \in contacts : r.c[1] = DIDI /\ r.c[2] \in area_entities
    /\ didi_contacts = {r \in contacts : r.c[1] = DIDI \/ r.c[2] = DIDI}
    /\ obs.sys = "trigger" =>
         \A r \in contacts \ obs.prev :
            /\ r.c[1] \in {m.e : m \in moving_colliders}
            /\ r.c[2] \in {t.e : t \in trigger_areas}

\* a pass has spawned the record of Didi and an item dropped on the floor,
\* and the filter selects it
C36_Witness ==
    /\ obs.sys = "trigger"
    /\ \E r \in contacts \ obs.prev : r.c = <<DIDI, FIRST_SPAWNED>>
    /\ didi_contacts = contacts
    /\ contacts # {}

\* C37: once the cooldown is started, and while pick_or_drop_system keeps
\* being run with positive deltas, a run of the system eventually ticks the
\* cooldown to available, whether the interact key is pressed or not.
C37_CooldownElapses ==
    (~cooldown.available)
      ~> (obs.sys = "pick" /\ tick(obs.cd, obs.delta).available)

\* a run without the key pressed has ticked a started cooldown to available
C37_Witness ==
    /\ obs.sys = "pick"
    /\ ~obs.cd.available
    /\ obs.cd.remaining = COOLDOWN_SECONDS
    /\ ~obs.space
    /\ cooldown.available

C39_CarryingMatchesItem ==
    obs.sys = "handle" =>
      /\ carrying # NoItem <=> Cardinality(carried_items) = 1
      /\ carrying # NoItem => \A it \in items : it.carried => it.item = carrying
====
